---- MODULE Spec2Model ----
(***************************************************************************)
(* Model of pf_bf_search.py: the global factorial cache `facts`, the       *)
(* lookup factorial_index_of, the three classifiers and the two search     *)
(* loops search_pf / search_bf.                                            *)
(*                                                                         *)
(* Python lists are 0-indexed, TLA+ sequences 1-indexed: facts[k] of the   *)
(* source is f[k + 1] here, and len(facts) is Len(f).  Python integers are *)
(* unbounded; every value of the model stays far below 2^31.               *)
(***************************************************************************)
EXTENDS Integers, Sequences, FiniteSets, TLC

\* ---------------------------------------------------------------- bounds
\* search_pf / search_bf are called with n_max in 0..NMax
NMax == 10
\* factorial_index_of / extend_factorials_until_ge are called with x in MinX..MaxX
\* (and with the neighbours of the entries of the table, see XInputs)
MaxX == 25
\* the classifiers are called directly with 0 <= r <= n <= MaxArgN, 0 <= c <= MaxArgN
MaxArgN == 6

\* ---------------------------------------------------------------- values
\* Python's None, as returned in the second component of factorial_index_of
None == -1

MinX == 0 - 2

Last(f) == f[Len(f)]

\* ------------------------------------------------------- factorial cache
\* mutant: the loop test written <= instead of <
RECURSIVE extend_while_le(_, _)
extend_while_le(f, x) ==
    IF Last(f) <= x
        THEN extend_while_le(Append(f, Last(f) * Len(f)), x)
        ELSE f

\* extend_factorials_until_ge(x): while facts[-1] < x: facts.append(facts[-1] * len(facts))
RECURSIVE extend_factorials_until_ge(_, _)
extend_factorials_until_ge(f, x) ==
    IF Last(f) < x
        THEN extend_factorials_until_ge(Append(f, Last(f) * Len(f)), x)
        ELSE f

\* the while loop of factorial_index_of: binary search of x in f[lo..hi] (0-based)
RECURSIVE BinarySearch(_, _, _, _)
BinarySearch(f, x, lo, hi) ==
    IF lo <= hi
        THEN LET mid == (lo + hi) \div 2
                 v   == f[mid + 1]
             IN  IF v = x THEN [ok |-> TRUE, k |-> mid]
                 ELSE IF v < x THEN BinarySearch(f, x, mid + 1, hi)
                 ELSE BinarySearch(f, x, lo, mid - 1)
        ELSE [ok |-> FALSE, k |-> None]

\* mutant: the search window ends one entry early (hi = len(facts) - 2)
factorial_index_of_short(f, x) ==
    IF x < 1
        THEN [ok |-> FALSE, k |-> None, facts |-> f]
        ELSE LET g == extend_factorials_until_ge(f, x)
                 b == BinarySearch(g, x, 0, Len(g) - 2)
             IN  [ok |-> b.ok, k |-> b.k, facts |-> g]

\* factorial_index_of(x) on table f: the pair returned and the table it leaves
factorial_index_of(f, x) ==
    IF x < 1
        THEN [ok |-> FALSE, k |-> None, facts |-> f]
        ELSE LET g == extend_factorials_until_ge(f, x)
                 b == BinarySearch(g, x, 0, Len(g) - 1)
             IN  [ok |-> b.ok, k |-> b.k, facts |-> g]

is_factorial(f, x) == factorial_index_of(f, x)

n_is_factorial(f, n) == factorial_index_of(f, n)

\* mutant: is_pf_trivial without the test r == n - 1
is_pf_trivial_no_pred(f, n, r, c) ==
    IF r = 0 \/ r = n
        THEN [ret |-> TRUE, facts |-> f]
        ELSE IF r = 1
            THEN LET q == n_is_factorial(f, n)
                 IN  [ret |-> q.ok, facts |-> q.facts]
            ELSE [ret |-> FALSE, facts |-> f]

\* ------------------------------------------------------------ classifiers
\* each returns its boolean result and the table the call leaves
is_pf_trivial(f, n, r, c) ==
    IF r = 0 \/ r = n - 1 \/ r = n
        THEN [ret |-> TRUE, facts |-> f]
        ELSE IF r = 1
            THEN LET q == n_is_factorial(f, n)
                 IN  [ret |-> q.ok, facts |-> q.facts]
            ELSE [ret |-> FALSE, facts |-> f]

is_pf_F3(f, n, r, c) ==
    LET q == n_is_factorial(f, n)
    IN  IF ~q.ok \/ q.k = None \/ q.k < 3
            THEN [ret |-> FALSE, facts |-> q.facts]
            ELSE [ret |-> (r = n - q.k) /\ (c = n - 1), facts |-> q.facts]

is_bf_trivial(f, n, r, c) ==
    IF r = 0 \/ r = n
        THEN [ret |-> TRUE, facts |-> f]
        ELSE IF r = 1 \/ r = n - 1
            THEN LET q == n_is_factorial(f, n)
                 IN  [ret |-> q.ok, facts |-> q.facts]
            ELSE [ret |-> FALSE, facts |-> f]

\* ------------------------------------------------------------ data models
PFRecord(n, r, c, cls) == [n |-> n, r |-> r, c |-> c, cls |-> cls]

BFRecord(n, r, c, cls) == [n |-> n, r |-> r, c |-> c, cls |-> cls]

\* math.comb(n, r): the exact binomial coefficient
RECURSIVE comb(_, _)
comb(n, r) ==
    IF r < 0 \/ r > n THEN 0
    ELSE IF r = 0 \/ r = n THEN 1
    ELSE comb(n - 1, r - 1) + comb(n - 1, r)

\* ----------------------------------------------------------- search loops
\* The loop state of a search is [facts, out, n, r, prod]: the table, the list
\* built so far and the loop variables as they stand at the end of the body of
\* iteration (n, r).  Before the first iteration n = r = -1.
LoopEntry(f) == [facts |-> f, out |-> <<>>, n |-> 0 - 1, r |-> 0 - 1, prod |-> 1]

\* the two nested range() loops are exhausted
LoopDone(s, n_max) == s.r = s.n /\ s.n = n_max

\* mutant: a trivial match suppressed by the flag falls through to the later classes
PfBody_relabel(f, out, n, r, p, include_trivial, include_pf_f3) ==
    LET prod == IF r > 0 THEN p * (n - (r - 1)) ELSE p
        q    == is_factorial(f, prod)
        c    == q.k
        t    == is_pf_trivial(q.facts, n, r, c)
        g    == is_pf_F3(t.facts, n, r, c)
    IN  IF ~q.ok \/ c = None
            THEN [facts |-> q.facts, out |-> out, n |-> n, r |-> r, prod |-> prod]
        ELSE IF t.ret /\ include_trivial
            THEN [facts |-> t.facts,
                  out   |-> Append(out, PFRecord(n, r, c, "trivial")),
                  n |-> n, r |-> r, prod |-> prod]
        ELSE IF g.ret
            THEN [facts |-> g.facts,
                  out   |-> IF include_pf_f3
                                THEN Append(out, PFRecord(n, r, c, "PF_F3"))
                                ELSE out,
                  n |-> n, r |-> r, prod |-> prod]
        ELSE [facts |-> g.facts,
              out   |-> Append(out, PFRecord(n, r, c, "exceptional")),
              n |-> n, r |-> r, prod |-> prod]

\* the body of search_pf's inner loop for (n, r), entered with running product p
PfBody(f, out, n, r, p, include_trivial, include_pf_f3) ==
    LET prod == IF r > 0 THEN p * (n - (r - 1)) ELSE p
        q    == is_factorial(f, prod)
        c    == q.k
        t    == is_pf_trivial(q.facts, n, r, c)
        g    == is_pf_F3(t.facts, n, r, c)
    IN  IF ~q.ok \/ c = None
            THEN [facts |-> q.facts, out |-> out, n |-> n, r |-> r, prod |-> prod]
        ELSE IF t.ret
            THEN [facts |-> t.facts,
                  out   |-> IF include_trivial
                                THEN Append(out, PFRecord(n, r, c, "trivial"))
                                ELSE out,
                  n |-> n, r |-> r, prod |-> prod]
        ELSE IF g.ret
            THEN [facts |-> g.facts,
                  out   |-> IF include_pf_f3
                                THEN Append(out, PFRecord(n, r, c, "PF_F3"))
                                ELSE out,
                  n |-> n, r |-> r, prod |-> prod]
        ELSE [facts |-> g.facts,
              out   |-> Append(out, PFRecord(n, r, c, "exceptional")),
              n |-> n, r |-> r, prod |-> prod]

\* mutant: prod = 1 set once before the outer loop, not once per n
PfStep_no_reset(s, include_trivial, include_pf_f3) ==
    IF s.r < s.n
        THEN PfBody(s.facts, s.out, s.n, s.r + 1, s.prod,
                    include_trivial, include_pf_f3)
        ELSE PfBody(s.facts, s.out, s.n + 1, 0, s.prod,
                    include_trivial, include_pf_f3)

\* one iteration of search_pf: advance (n, r), reset prod on a new n, run the body
PfStep(s, include_trivial, include_pf_f3) ==
    IF s.r < s.n
        THEN PfBody(s.facts, s.out, s.n, s.r + 1, s.prod,
                    include_trivial, include_pf_f3)
        ELSE PfBody(s.facts, s.out, s.n + 1, 0, 1,
                    include_trivial, include_pf_f3)

\* mutant: no `continue` after a trivial record, which is then appended again
BfBody_no_continue(f, out, n, r, include_trivial) ==
    LET val == comb(n, r)
        q   == is_factorial(f, val)
        c   == q.k
        t   == is_bf_trivial(q.facts, n, r, c)
        o   == IF t.ret /\ include_trivial
                   THEN Append(out, BFRecord(n, r, c, "trivial"))
                   ELSE out
    IN  IF ~q.ok \/ c = None
            THEN [facts |-> q.facts, out |-> out, n |-> n, r |-> r, prod |-> 1]
        ELSE [facts |-> t.facts,
              out   |-> Append(o, BFRecord(n, r, c, "exceptional")),
              n |-> n, r |-> r, prod |-> 1]

\* the body of search_bf's inner loop for (n, r)
BfBody(f, out, n, r, include_trivial) ==
    LET val == comb(n, r)
        q   == is_factorial(f, val)
        c   == q.k
        t   == is_bf_trivial(q.facts, n, r, c)
    IN  IF ~q.ok \/ c = None
            THEN [facts |-> q.facts, out |-> out, n |-> n, r |-> r, prod |-> 1]
        ELSE IF t.ret
            THEN [facts |-> t.facts,
                  out   |-> IF include_trivial
                                THEN Append(out, BFRecord(n, r, c, "trivial"))
                                ELSE out,
                  n |-> n, r |-> r, prod |-> 1]
        ELSE [facts |-> t.facts,
              out   |-> Append(out, BFRecord(n, r, c, "exceptional")),
              n |-> n, r |-> r, prod |-> 1]

BfStep(s, include_trivial) ==
    IF s.r < s.n
        THEN BfBody(s.facts, s.out, s.n, s.r + 1, include_trivial)
        ELSE BfBody(s.facts, s.out, s.n + 1, 0, include_trivial)

\* a whole call: the loop run to its end from loop state s
RECURSIVE PfLoop(_, _, _, _)
PfLoop(s, n_max, include_trivial, include_pf_f3) ==
    IF LoopDone(s, n_max)
        THEN s
        ELSE PfLoop(PfStep(s, include_trivial, include_pf_f3),
                    n_max, include_trivial, include_pf_f3)

RECURSIVE BfLoop(_, _, _)
BfLoop(s, n_max, include_trivial) ==
    IF LoopDone(s, n_max)
        THEN s
        ELSE BfLoop(BfStep(s, include_trivial), n_max, include_trivial)

\* search_pf(n_max, include_trivial, include_pf_f3) called on table f:
\* .out is the list returned, .facts the table left behind
search_pf(f, n_max, include_trivial, include_pf_f3) ==
    PfLoop(LoopEntry(f), n_max, include_trivial, include_pf_f3)

search_bf(f, n_max, include_trivial) ==
    BfLoop(LoopEntry(f), n_max, include_trivial)

\* ------------------------------------------------------------------ state
VARIABLES
    facts,      \* the global factorial table
    pc,         \* "idle" | "pf" | "bf" | "pf_done" | "bf_done"
    n_max, include_trivial, include_pf_f3,   \* arguments of the current search
    n, r, prod, \* loop variables of the current search
    out,        \* the list the current search has built / returned
    start,      \* the table as it was when the current search was called
    call        \* the last direct call of a cache function or classifier

vars == <<facts, pc, n_max, include_trivial, include_pf_f3, n, r, prod, out, start, call>>

\* (op: the function; x or n, r: its arguments; ok, k: what it returned;
\* pre: the table before the call)
NoCall == [op |-> "none", x |-> 0, n |-> 0, r |-> 0,
           ok |-> FALSE, k |-> None, pre |-> <<>>]

\* the caller is between calls
AtRest == pc \in {"idle", "pf_done", "bf_done"}

cur == [facts |-> facts, out |-> out, n |-> n, r |-> r, prod |-> prod]

\* arguments tried for x: a small range, and the neighbours of the table's entries
\* (the successor of the last entry only inside the range, so the table stays bounded)
XInputs == (MinX..MaxX)
             \cup {facts[i] - 1 : i \in DOMAIN facts}
             \cup {facts[i] : i \in DOMAIN facts}
             \cup {facts[i] + 1 : i \in 1..(Len(facts) - 1)}

Init ==
    /\ facts = <<1, 1>>
    /\ pc = "idle"
    /\ n_max = 0
    /\ include_trivial = TRUE
    /\ include_pf_f3 = TRUE
    /\ n = 0 - 1
    /\ r = 0 - 1
    /\ prod = 1
    /\ out = <<>>
    /\ start = <<1, 1>>
    /\ call = NoCall

\* a direct call leaves no search in progress
NoSearch ==
    /\ pc' = "idle"
    /\ n_max' = 0
    /\ include_trivial' = TRUE
    /\ include_pf_f3' = TRUE
    /\ n' = 0 - 1
    /\ r' = 0 - 1
    /\ prod' = 1
    /\ out' = <<>>
    /\ start' = <<1, 1>>

CallExtend ==
    /\ AtRest
    /\ \E x \in XInputs :
        /\ facts' = extend_factorials_until_ge(facts, x)
        /\ call' = [NoCall EXCEPT !.op = "extend_factorials_until_ge",
                                  !.x = x, !.pre = facts]
    /\ NoSearch

CallFactorialIndexOf ==
    /\ AtRest
    /\ \E x \in XInputs :
        LET q == factorial_index_of(facts, x)
        IN  /\ facts' = q.facts
            /\ call' = [NoCall EXCEPT !.op = "factorial_index_of", !.x = x,
                                      !.ok = q.ok, !.k = q.k, !.pre = facts]
    /\ NoSearch

CallIsPfTrivial ==
    /\ AtRest
    /\ \E a \in 0..MaxArgN, b \in 0..MaxArgN, c \in 0..MaxArgN :
        /\ b <= a
        /\ LET t == is_pf_trivial(facts, a, b, c)
           IN  /\ facts' = t.facts
               /\ call' = [NoCall EXCEPT !.op = "is_pf_trivial", !.n = a, !.r = b,
                                         !.ok = t.ret, !.pre = facts]
    /\ NoSearch

CallIsPfF3 ==
    /\ AtRest
    /\ \E a \in 0..MaxArgN, b \in 0..MaxArgN, c \in 0..MaxArgN :
        /\ b <= a
        /\ LET t == is_pf_F3(facts, a, b, c)
           IN  /\ facts' = t.facts
               /\ call' = [NoCall EXCEPT !.op = "is_pf_F3", !.n = a, !.r = b,
                                         !.ok = t.ret, !.pre = facts]
    /\ NoSearch

CallIsBfTrivial ==
    /\ AtRest
    /\ \E a \in 0..MaxArgN, b \in 0..MaxArgN, c \in 0..MaxArgN :
        /\ b <= a
        /\ LET t == is_bf_trivial(facts, a, b, c)
           IN  /\ facts' = t.facts
               /\ call' = [NoCall EXCEPT !.op = "is_bf_trivial", !.n = a, !.r = b,
                                         !.ok = t.ret, !.pre = facts]
    /\ NoSearch

\* search_pf is called: out = [], the loops not yet entered
StartPF ==
    /\ AtRest
    /\ \E m \in 0..NMax, it \in BOOLEAN, f3 \in BOOLEAN :
        /\ n_max' = m
        /\ include_trivial' = it
        /\ include_pf_f3' = f3
    /\ pc' = "pf"
    /\ n' = 0 - 1
    /\ r' = 0 - 1
    /\ prod' = 1
    /\ out' = <<>>
    /\ start' = facts
    /\ call' = NoCall
    /\ UNCHANGED facts

\* one iteration of search_pf's inner loop
StepPF ==
    /\ pc = "pf"
    /\ ~LoopDone(cur, n_max)
    /\ LET s == PfStep(cur, include_trivial, include_pf_f3)
       IN  /\ facts' = s.facts
           /\ out' = s.out
           /\ n' = s.n
           /\ r' = s.r
           /\ prod' = s.prod
    /\ UNCHANGED <<pc, n_max, include_trivial, include_pf_f3, start, call>>

\* return out
ReturnPF ==
    /\ pc = "pf"
    /\ LoopDone(cur, n_max)
    /\ pc' = "pf_done"
    /\ UNCHANGED <<facts, n_max, include_trivial, include_pf_f3, n, r, prod, out,
                   start, call>>

\* search_bf is called (it has no include_pf_f3 parameter)
StartBF ==
    /\ AtRest
    /\ \E m \in 0..NMax, it \in BOOLEAN :
        /\ n_max' = m
        /\ include_trivial' = it
    /\ include_pf_f3' = TRUE
    /\ pc' = "bf"
    /\ n' = 0 - 1
    /\ r' = 0 - 1
    /\ prod' = 1
    /\ out' = <<>>
    /\ start' = facts
    /\ call' = NoCall
    /\ UNCHANGED facts

StepBF ==
    /\ pc = "bf"
    /\ ~LoopDone(cur, n_max)
    /\ LET s == BfStep(cur, include_trivial)
       IN  /\ facts' = s.facts
           /\ out' = s.out
           /\ n' = s.n
           /\ r' = s.r
           /\ prod' = s.prod
    /\ UNCHANGED <<pc, n_max, include_trivial, include_pf_f3, start, call>>

ReturnBF ==
    /\ pc = "bf"
    /\ LoopDone(cur, n_max)
    /\ pc' = "bf_done"
    /\ UNCHANGED <<facts, n_max, include_trivial, include_pf_f3, n, r, prod, out,
                   start, call>>

Next ==
    \/ CallExtend
    \/ CallFactorialIndexOf
    \/ CallIsPfTrivial
    \/ CallIsPfF3
    \/ CallIsBfTrivial
    \/ StartPF
    \/ StepPF
    \/ ReturnPF
    \/ StartBF
    \/ StepBF
    \/ ReturnBF

Spec == Init /\ [][Next]_vars

\* ------------------------------------------------- reference definitions
\* (the mathematics the statements below are measured against; none of these
\* reads the table)
RECURSIVE Factorial(_)
Factorial(k) == IF k <= 0 THEN 1 ELSE k * Factorial(k - 1)

\* the least k with k! = x, by linear scan; None when x is no factorial
RECURSIVE FactorialScan(_, _, _)
FactorialScan(x, k, fk) ==
    IF fk >= x
        THEN (IF fk = x THEN k ELSE None)
        ELSE FactorialScan(x, k + 1, fk * (k + 1))

IsFactorialValue(x) == FactorialScan(x, 0, 1) # None

\* P(a, b) = a (a-1) ... (a-b+1), P(a, 0) = 1
RECURSIVE FallingProduct(_, _)
FallingProduct(a, b) == IF b <= 0 THEN 1 ELSE FallingProduct(a, b - 1) * (a - b + 1)

\* C(a, b) = P(a, b) / b!
Binomial(a, b) == FallingProduct(a, b) \div Factorial(b)

InPF == pc \in {"pf", "pf_done"}

InBF == pc \in {"bf", "bf_done"}

\* the quantity the current search tests for the pair (a, b)
MatchedValue(a, b) == IF InPF THEN FallingProduct(a, b) ELSE Binomial(a, b)

CountOf(o, a, b) == Cardinality({i \in DOMAIN o : o[i].n = a /\ o[i].r = b})

PfTrivialRef(a, b) == b = 0 \/ b = a - 1 \/ b = a \/ (b = 1 /\ IsFactorialValue(a))

PfF3Ref(a, b, c) ==
    /\ ~PfTrivialRef(a, b)
    /\ \E t \in 3..a : Factorial(t) = a /\ b = a - t /\ c = a - 1

BfTrivialRef(a, b) ==
    b = 0 \/ b = a \/ ((b = 1 \/ b = a - 1) /\ IsFactorialValue(a))

ExpectedPfClass(a, b, c) ==
    IF PfTrivialRef(a, b) THEN "trivial"
    ELSE IF PfF3Ref(a, b, c) THEN "PF_F3"
    ELSE "exceptional"

ExpectedBfClass(a, b) == IF BfTrivialRef(a, b) THEN "trivial" ELSE "exceptional"

IsPrefix(f, g) == Len(f) <= Len(g) /\ \A i \in DOMAIN f : f[i] = g[i]

\* the tables the program can hold that are no longer than the current one
Tables(f) == {SubSeq(f, 1, m) : m \in 2..Len(f)}

\* list o with the records of a suppressed class deleted
DropSuppressed(o, keep_trivial, keep_f3) ==
    LET Kept(rec) == /\ (rec.cls = "trivial" => keep_trivial)
                     /\ (rec.cls = "PF_F3" => keep_f3)
    IN  SelectSeq(o, Kept)

\* two lists agree in everything but the 0-or-1 index of a trivial match of value 1
SameButUnitIndex(o1, o2) ==
    /\ Len(o1) = Len(o2)
    /\ \A i \in DOMAIN o1 :
        /\ o1[i].n = o2[i].n
        /\ o1[i].r = o2[i].r
        /\ o1[i].cls = o2[i].cls
        /\ \/ o1[i].c = o2[i].c
           \/ /\ o1[i].cls = "trivial"
              /\ MatchedValue(o1[i].n, o1[i].r) = 1
              /\ {o1[i].c, o2[i].c} = {0, 1}

\* what the search that has just returned would return when called on table T
Rerun(T) ==
    IF InPF THEN search_pf(T, n_max, include_trivial, include_pf_f3).out
            ELSE search_bf(T, n_max, include_trivial).out

Classifiers == {"is_pf_trivial", "is_pf_F3", "is_bf_trivial"}

\* ------------------------------------------------------------------ claims

\* C1: factorial_index_of(x), called on any reachable table, returns (True, k)
\* with facts[k] = x = k! when x is a factorial (the unique k for x >= 2, 0 or 1
\* for x = 1) and (False, None) for every other x, every x < 1 included.
C1_FactorialIndexExact ==
    call.op = "factorial_index_of" =>
        LET x == call.x
            j == FactorialScan(x, 0, 1)
        IN  IF j # None
                THEN /\ call.ok
                     /\ call.k \in 0..(Len(facts) - 1)
                     /\ facts[call.k + 1] = x
                     /\ Factorial(call.k) = x
                     /\ (x >= 2 => call.k = j)
                     /\ (x = 1 => call.k \in {0, 1})
                ELSE ~call.ok /\ call.k = None

\* a lookup of 24 on a table that did not yet hold it returned (True, 4)
C1_Witness ==
    /\ call.op = "factorial_index_of"
    /\ call.x = 24
    /\ call.ok
    /\ call.k = 4
    /\ Len(call.pre) < 5

\* C2: with every include flag true, search_pf returns exactly one record for each
\* pair 0 <= r <= n <= n_max whose falling product P(n, r) is a factorial and none
\* for any other pair, search_bf likewise for the binomial coefficient; in every
\* record c! is the matched value; search_pf's running product at (n, r) is P(n, r).
C2_SearchFindsExactlyTheFactorialPairs ==
    /\ (InPF /\ n >= 0) => prod = FallingProduct(n, r)
    /\ (pc \in {"pf_done", "bf_done"} /\ include_trivial /\ include_pf_f3) =>
        /\ \A a \in 0..n_max : \A b \in 0..a :
            CountOf(out, a, b) = IF IsFactorialValue(MatchedValue(a, b)) THEN 1 ELSE 0
        /\ \A i \in DOMAIN out :
            /\ out[i].n \in 0..n_max
            /\ out[i].r \in 0..out[i].n
            /\ out[i].c >= 0
            /\ Factorial(out[i].c) = MatchedValue(out[i].n, out[i].r)

\* a full PF search up to at least 6 has returned, with the match P(6, 3) = 120
C2_Witness ==
    /\ pc = "pf_done"
    /\ include_trivial
    /\ include_pf_f3
    /\ n_max >= 6
    /\ \E i \in DOMAIN out : out[i].n = 6 /\ out[i].r = 3 /\ out[i].c = 5

\* C3: every match gets exactly one class, in the order trivial -> PF_F3 ->
\* exceptional: in search_pf 'trivial' iff r = 0 or r = n-1 or r = n or (r = 1 and
\* n is a factorial), 'PF_F3' iff not trivial and n = t! with t >= 3, r = n - t,
\* c = n - 1, else 'exceptional'; in search_bf 'trivial' iff r = 0 or r = n or
\* ((r = 1 or r = n-1) and n is a factorial), else 'exceptional'.  The match
\* (6, 3, 5) is labelled PF_F3.  No match has two records, and with the flags true
\* none is left without one.
C3_OneClassByPriority ==
    /\ InPF => \A i \in DOMAIN out :
                  out[i].cls = ExpectedPfClass(out[i].n, out[i].r, out[i].c)
    /\ InBF => \A i \in DOMAIN out :
                  out[i].cls = ExpectedBfClass(out[i].n, out[i].r)
    /\ \A i \in DOMAIN out : CountOf(out, out[i].n, out[i].r) = 1
    /\ (pc \in {"pf", "bf"} /\ n >= 0 /\ include_trivial /\ include_pf_f3
          /\ IsFactorialValue(MatchedValue(n, r))) =>
        /\ out # <<>>
        /\ Last(out).n = n
        /\ Last(out).r = r
    /\ (pc = "pf_done" /\ n_max >= 6 /\ include_pf_f3) =>
        \E i \in DOMAIN out : out[i] = PFRecord(6, 3, 5, "PF_F3")

\* a PF search has labelled (6, 3, 5) PF_F3, (10, 4, 7) exceptional and (3, 2, 3) trivial
C3_Witness ==
    /\ InPF
    /\ \E i \in DOMAIN out : out[i] = PFRecord(6, 3, 5, "PF_F3")
    /\ \E i \in DOMAIN out : out[i] = PFRecord(10, 4, 7, "exceptional")
    /\ \E i \in DOMAIN out : out[i] = PFRecord(3, 2, 3, "trivial")

\* C4: two runs of the same search with the same n_max and flags return identical
\* lists, also when the second run is made later in the same process, on the table
\* the earlier calls have extended.
C4_RerunIdentical ==
    pc \in {"pf_done", "bf_done"} =>
        \A T \in Tables(facts) : Rerun(T) = out

\* C5: the table is always a prefix of the factorial sequence of length >= 2,
\* non-decreasing and strictly increasing from index 2 on; every step leaves the old
\* table a prefix of the new one; extend_factorials_until_ge(x) ends with last
\* entry >= x, changes nothing when that already held, and is idempotent.
C5_TableInv ==
    /\ Len(facts) >= 2
    /\ \A i \in DOMAIN facts : facts[i] = Factorial(i - 1)
    /\ \A i \in 1..(Len(facts) - 1) : facts[i] <= facts[i + 1]
    /\ \A i \in 3..(Len(facts) - 1) : facts[i] < facts[i + 1]
    /\ call.op = "extend_factorials_until_ge" =>
        /\ Last(facts) >= call.x
        /\ (Last(call.pre) >= call.x => facts = call.pre)
        /\ extend_factorials_until_ge(facts, call.x) = facts

C5_FactorialPrefixAppendOnly ==
    []C5_TableInv /\ [][IsPrefix(facts, facts')]_vars

\* a direct extension call has just appended at least two entries
C5_Witness ==
    /\ call.op = "extend_factorials_until_ge"
    /\ Len(facts) >= Len(call.pre) + 2
    /\ Last(facts) >= call.x

\* C6: the index returned for x = 1 is one fixed convention: the same k in every
\* reachable table state, so that every record whose matched value is 1 reports
\* the same c within a search and across searches.
C6_UnitIndexFixed ==
    /\ (call.op = "factorial_index_of" /\ call.x = 1) =>
          call.k = factorial_index_of(<<1, 1>>, 1).k
    /\ \A i \in DOMAIN out : \A j \in DOMAIN out :
          (MatchedValue(out[i].n, out[i].r) = 1 /\ MatchedValue(out[j].n, out[j].r) = 1)
              => out[i].c = out[j].c

\* C7: from the same table, a search with include_trivial = false returns the list
\* of the run with include_trivial = true with the 'trivial' records deleted, and
\* search_pf with include_pf_f3 = false the list of the run with it true with the
\* 'PF_F3' records deleted: the records left are the same, in the same order, and
\* no suppressed match comes back as 'exceptional'.
C7_FlagsOnlyDelete ==
    /\ pc = "pf_done" =>
        /\ out = DropSuppressed(search_pf(start, n_max, TRUE, include_pf_f3).out,
                                include_trivial, TRUE)
        /\ out = DropSuppressed(search_pf(start, n_max, include_trivial, TRUE).out,
                                TRUE, include_pf_f3)
        /\ out = DropSuppressed(search_pf(start, n_max, TRUE, TRUE).out,
                                include_trivial, include_pf_f3)
    /\ pc = "bf_done" =>
        out = DropSuppressed(search_bf(start, n_max, TRUE).out, include_trivial, TRUE)

\* a PF search with both classes suppressed has returned just the two exceptional
\* matches, on a table the search itself had to extend
C7_Witness ==
    /\ pc = "pf_done"
    /\ ~include_trivial
    /\ ~include_pf_f3
    /\ out = <<PFRecord(10, 3, 6, "exceptional"), PFRecord(10, 4, 7, "exceptional")>>
    /\ Len(start) < Len(facts)
    /\ Len(search_pf(start, n_max, TRUE, TRUE).out) > Len(out) + 1

\* C8: at every point of a search the output list is strictly increasing in the
\* lexicographic order on (n, r).
C8_OutputStrictlyIncreasing ==
    \A i \in DOMAIN out : \A j \in DOMAIN out :
        i < j => \/ out[i].n < out[j].n
                 \/ (out[i].n = out[j].n /\ out[i].r < out[j].r)

\* a BF search under way holds records of several n and several r of one n
C8_Witness ==
    /\ pc = "bf"
    /\ Len(out) >= 6
    /\ \E i \in DOMAIN out : \E j \in DOMAIN out :
          out[i].n = out[j].n /\ out[i].r < out[j].r
    /\ \E i \in DOMAIN out : \E j \in DOMAIN out : out[i].n < out[j].n

\* C9: the classifiers are side-effect free: a call leaves the global table
\* unchanged, also when n is larger than the table's last entry.
C9_ClassifiersLeaveTable ==
    call.op \in Classifiers => facts = call.pre

\* C10: the non-trivial output does not depend on the table a search starts from:
\* runs from any two reachable tables with the same n_max and flags return the same
\* sequence of (n, r, class), with the same c in every PF_F3 / exceptional record;
\* only c (0 or 1) of a trivial record whose matched value is 1 can differ.
C10_StartTableOnlyMovesUnitIndex ==
    pc \in {"pf_done", "bf_done"} =>
        \A T \in Tables(facts) : SameButUnitIndex(out, Rerun(T))

\* a PF search with an exceptional record has returned, and the same search from a
\* shorter table returns a different list
C10_Witness ==
    /\ pc = "pf_done"
    /\ \E i \in DOMAIN out : out[i].cls = "exceptional"
    /\ \E i \in DOMAIN out : out[i].cls = "PF_F3"
    /\ \E T \in Tables(facts) : Rerun(T) # out

====
